---------------------------- MODULE Spec2Model ----------------------------
(***************************************************************************)
(* Outbound e-mail subsystem of hoodik.                                    *)
(*                                                                         *)
(*   config/src/email.rs    TlsMode, SmtpCredentials::new, EmailConfig::new*)
(*   email/src/senders/smtp.rs   SmtpSender::new, SmtpSender::send         *)
(*                                                                         *)
(* Two specifications share the variables:                                 *)
(*   Spec      configuration resolution at startup followed by the         *)
(*             construction of the SMTP sender;                            *)
(*   SpecSend  concurrent send calls on one constructed, shared sender.    *)
(*                                                                         *)
(* Strings are sequences of one-character strings, so that to_lowercase,   *)
(* format! and the mailbox parser are computed and not assumed.            *)
(***************************************************************************)
EXTENDS Integers, Sequences, FiniteSets, TLC

VARIABLES
    env,        \* the process environment: variable name -> Option<String>
    pc,         \* position of the startup code
    vars,       \* the Vars accumulator: names read, errors, warnings
    closure,    \* the boxed FnOnce returned by SmtpCredentials::new (its captures)
    config,     \* the EmailConfig the resolution returned
    panicMsg,   \* the aggregated error startup terminated with
    sender,     \* the AppResult<SmtpSender> of SmtpSender::new
    calls       \* per caller: the send call it is in

allvars == <<env, pc, vars, closure, config, panicMsg, sender, calls>>

(***************************************************************************)
(* Options and strings                                                     *)
(***************************************************************************)
None == [some |-> FALSE]

Some(x) == [some |-> TRUE, v |-> x]

UpperChars ==
    <<"A","B","C","D","E","F","G","H","I","J","K","L","M",
      "N","O","P","Q","R","S","T","U","V","W","X","Y","Z">>

LowerChars ==
    <<"a","b","c","d","e","f","g","h","i","j","k","l","m",
      "n","o","p","q","r","s","t","u","v","w","x","y","z">>

DigitChars == <<"0","1","2","3","4","5","6","7","8","9">>

\* char::to_lowercase on the ASCII range
ToLowerChar(c) ==
    IF \E k \in 1..Len(UpperChars) : UpperChars[k] = c
    THEN LowerChars[CHOOSE k \in 1..Len(UpperChars) : UpperChars[k] = c]
    ELSE c

\* str::to_lowercase
ToLowercase(s) == [k \in 1..Len(s) |-> ToLowerChar(s[k])]

\* str::is_empty
IsEmpty(s) == Len(s) = 0

DigitVal(c) == (CHOOSE k \in 1..Len(DigitChars) : DigitChars[k] = c) - 1

RECURSIVE ParseDigits(_, _)
ParseDigits(s, acc) ==
    IF s = <<>> THEN acc ELSE ParseDigits(Tail(s), acc * 10 + DigitVal(Head(s)))

\* u16::from_str on a well-formed decimal
ParseU16(s) == ParseDigits(s, 0)

\* string literals used by the code and by the environments explored
S_smtp == <<"s","m","t","p">>
S_starttls == <<"s","t","a","r","t","t","l","s">>
S_start_tls == <<"s","t","a","r","t","_","t","l","s">>
S_implicit == <<"i","m","p","l","i","c","i","t">>
S_tls == <<"t","l","s">>
S_ssl == <<"s","s","l">>
S_none == <<"n","o","n","e">>
S_plain == <<"p","l","a","i","n">>
S_Hoodik == <<"H","o","o","d","i","k">>


(***************************************************************************)
(* TlsMode (config/src/email.rs 7-36)                                      *)
(***************************************************************************)
TlsModes == {"StartTls", "ImplicitTls", "None"}

\* TlsMode::from_port
TlsModeFromPort(port) ==
    CASE port = 587 -> "StartTls"
      [] port = 465 -> "ImplicitTls"
      [] port = 25 -> "None"
      [] OTHER -> "ImplicitTls"

\* TlsMode::from_str: Option<TlsMode>
TlsModeFromStr(s) ==
    LET l == ToLowercase(s)
    IN  CASE l = S_starttls \/ l = S_start_tls -> Some("StartTls")
          [] l = S_implicit \/ l = S_tls \/ l = S_ssl -> Some("ImplicitTls")
          [] l = S_none \/ l = S_plain -> Some("None")
          [] OTHER -> None

\* the name the invalid-mode warning prints for the fallback (lines 107-111)
TlsModeLabel(m) ==
    CASE m = "StartTls" -> S_starttls
      [] m = "ImplicitTls" -> S_implicit
      [] m = "None" -> S_none

(***************************************************************************)
(* Vars (crate::vars), after the design document: an accumulator of the   *)
(* names read, the errors and the warnings.  A variable that is set is     *)
(* Some(value), the empty string included; a required variable that is     *)
(* not set records an error naming it.                                     *)
(***************************************************************************)
DefaultPort == 465

EmptyVars == [reads |-> {}, errors |-> <<>>, warnings |-> <<>>]

\* Vars::var::<String>: required
Var(vs, e, name) ==
    [vs  |-> [vs EXCEPT !.reads = @ \cup {name},
                        !.errors = IF e[name].some THEN @ ELSE Append(@, name)],
     val |-> e[name]]

\* Vars::maybe_var::<String>: optional
MaybeVar(vs, e, name) ==
    [vs |-> [vs EXCEPT !.reads = @ \cup {name}], val |-> e[name]]

\* Vars::var_default::<String>
VarDefault(vs, e, name, default) ==
    [vs  |-> [vs EXCEPT !.reads = @ \cup {name}],
     val |-> IF e[name].some THEN e[name] ELSE Some(default)]

\* Vars::var_default::<u16>
VarDefaultU16(vs, e, name, default) ==
    [vs  |-> [vs EXCEPT !.reads = @ \cup {name}],
     val |-> IF e[name].some THEN Some(ParseU16(e[name].v)) ELSE Some(default)]

\* Vars::add_warning
AddWarning(vs, w) == [vs EXCEPT !.warnings = Append(@, w)]

\* OptionLike::get; the code calls it on a required variable only after
\* panic_if_errors has passed, when the variable is known to be set
VarGet(val) == IF val.some THEN val.v ELSE <<>>

\* OptionLike::is_some
IsSome(val) == val.some

\* the two warnings of SmtpCredentials::new
InvalidTlsModeWarning(value, fallback, port) ==
    [kind |-> "InvalidTlsMode", value |-> value,
     detected |-> TlsModeLabel(fallback), port |-> port]

DeprecatedWarning == [kind |-> "DeprecatedDefaultFrom"]

(***************************************************************************)
(* SmtpCredentials::new (config/src/email.rs 80-165)                       *)
(***************************************************************************)
\* faulty variant: the explicit mode is looked up without to_lowercase
ResolveTlsMode_CaseSensitive(tls_mode_str_value, port_value) ==
    IF ~IsEmpty(tls_mode_str_value)
    THEN LET parsed == CASE tls_mode_str_value = S_starttls
                              \/ tls_mode_str_value = S_start_tls -> Some("StartTls")
                         [] tls_mode_str_value = S_implicit
                              \/ tls_mode_str_value = S_tls
                              \/ tls_mode_str_value = S_ssl -> Some("ImplicitTls")
                         [] tls_mode_str_value = S_none
                              \/ tls_mode_str_value = S_plain -> Some("None")
                         [] OTHER -> None
         IN  IF parsed.some
             THEN [mode |-> parsed.v, warn |-> <<>>]
             ELSE LET fallback == TlsModeFromPort(port_value)
                  IN  [mode |-> fallback,
                       warn |-> <<InvalidTlsModeWarning(tls_mode_str_value,
                                                        fallback, port_value)>>]
    ELSE [mode |-> TlsModeFromPort(port_value), warn |-> <<>>]

\* lines 99-119: the mode, and the warnings the resolution adds
ResolveTlsMode(tls_mode_str_value, port_value) ==
    IF ~IsEmpty(tls_mode_str_value)
    THEN LET parsed == TlsModeFromStr(tls_mode_str_value)
         IN  IF parsed.some
             THEN [mode |-> parsed.v, warn |-> <<>>]
             ELSE LET fallback == TlsModeFromPort(port_value)
                  IN  [mode |-> fallback,
                       warn |-> <<InvalidTlsModeWarning(tls_mode_str_value,
                                                        fallback, port_value)>>]
    ELSE [mode |-> TlsModeFromPort(port_value), warn |-> <<>>]

\* line 122
UsedDeprecatedDefaultFrom(default_from_email, smtp_default_from) ==
    ~IsSome(default_from_email) /\ IsSome(smtp_default_from)

\* format!("{} <{}>", name, email)
FormatNameEmail(name, email) == name \o <<" ", "<">> \o email \o <<">">>

\* faulty variant: the name-less arm does not test the email for emptiness
DefaultFrom_EmptyEmailAccepted(default_from_email, default_from_name, smtp_default_from) ==
    IF default_from_email.some /\ default_from_name.some
       /\ ~IsEmpty(default_from_email.v) /\ ~IsEmpty(default_from_name.v)
    THEN FormatNameEmail(default_from_name.v, default_from_email.v)
    ELSE IF default_from_email.some
    THEN FormatNameEmail(S_Hoodik, default_from_email.v)
    ELSE IF smtp_default_from.some /\ ~IsEmpty(smtp_default_from.v)
    THEN smtp_default_from.v
    ELSE <<>>

\* lines 134-153: the match inside the closure
DefaultFrom(default_from_email, default_from_name, smtp_default_from) ==
    IF default_from_email.some /\ default_from_name.some
       /\ ~IsEmpty(default_from_email.v) /\ ~IsEmpty(default_from_name.v)
    THEN FormatNameEmail(default_from_name.v, default_from_email.v)
    ELSE IF default_from_email.some /\ ~IsEmpty(default_from_email.v)
    THEN FormatNameEmail(S_Hoodik, default_from_email.v)
    ELSE IF smtp_default_from.some /\ ~IsEmpty(smtp_default_from.v)
    THEN smtp_default_from.v
    ELSE <<>>

\* lines 81-129: everything SmtpCredentials::new does before it returns the
\* closure: the reads, the TLS mode, the warnings; and the closure's captures
SmtpCredentialsNew(vs0, e) ==
    LET address  == Var(vs0, e, "SMTP_ADDRESS")
        username == Var(address.vs, e, "SMTP_USERNAME")
        password == Var(username.vs, e, "SMTP_PASSWORD")
        port     == VarDefaultU16(password.vs, e, "SMTP_PORT", DefaultPort)
        default_from_email == MaybeVar(port.vs, e, "SMTP_DEFAULT_FROM_EMAIL")
        default_from_name  == MaybeVar(default_from_email.vs, e, "SMTP_DEFAULT_FROM_NAME")
        smtp_default_from  == MaybeVar(default_from_name.vs, e, "SMTP_DEFAULT_FROM")
        tls_mode_str == VarDefault(smtp_default_from.vs, e, "SMTP_TLS_MODE", <<>>)
        tls_mode_str_value == tls_mode_str.val.v
        port_value == port.val.v
        tls  == ResolveTlsMode(tls_mode_str_value, port_value)
        vs1  == [tls_mode_str.vs EXCEPT !.warnings = @ \o tls.warn]
        used_deprecated_default_from ==
            UsedDeprecatedDefaultFrom(default_from_email.val, smtp_default_from.val)
        vs2  == IF used_deprecated_default_from
                THEN AddWarning(vs1, DeprecatedWarning) ELSE vs1
    IN  [vs |-> vs2,
         closure |-> [address |-> address.val,
                      username |-> username.val,
                      password |-> password.val,
                      port_value |-> port_value,
                      default_from_email |-> default_from_email.val,
                      default_from_name |-> default_from_name.val,
                      smtp_default_from |-> smtp_default_from.val,
                      tls_mode |-> tls.mode]]

\* lines 131-164: the closure's body, run on its captures
CredentialsClosure(c) ==
    [address |-> VarGet(c.address),
     username |-> VarGet(c.username),
     password |-> VarGet(c.password),
     port |-> c.port_value,
     default_from |-> DefaultFrom(c.default_from_email, c.default_from_name,
                                  c.smtp_default_from),
     tls_mode |-> c.tls_mode,
     used_deprecated_default_from |-> FALSE]

(***************************************************************************)
(* EmailConfig::new (config/src/email.rs 169-181)                          *)
(***************************************************************************)
\* faulty variant: the discriminator is compared ignoring case
MailerIsSmtp_IgnoreCase(mailer) == ToLowercase(mailer) = S_smtp

\* line 172: mailer == "smtp"
MailerIsSmtp(mailer) == mailer = S_smtp

\* Vars::panic_if_errors: whether the accumulated errors end startup
ErrorsPresent(errors) == errors # <<>>

(***************************************************************************)
(* Mailbox::from_str (lettre), as far as SmtpSender::new depends on it:    *)
(* "Name <user@domain>" or "user@domain"; anything else, the empty string  *)
(* included, is an error.                                                  *)
(***************************************************************************)
CountChar(s, ch) == Cardinality({k \in 1..Len(s) : s[k] = ch})

FirstIndex(s, ch) == CHOOSE k \in 1..Len(s) : s[k] = ch /\ \A j \in 1..(k-1) : s[j] # ch

RECURSIVE TrimEnd(_)
TrimEnd(s) ==
    IF s # <<>> /\ s[Len(s)] = " " THEN TrimEnd(SubSeq(s, 1, Len(s) - 1)) ELSE s

AddressValid(a) ==
    /\ CountChar(a, "@") = 1
    /\ FirstIndex(a, "@") > 1
    /\ FirstIndex(a, "@") < Len(a)
    /\ CountChar(a, " ") = 0
    /\ CountChar(a, "<") = 0
    /\ CountChar(a, ">") = 0

MailboxFromStr(s) ==
    IF CountChar(s, "<") = 0
    THEN IF AddressValid(s) THEN Some([name |-> <<>>, email |-> s]) ELSE None
    ELSE LET lt == FirstIndex(s, "<")
             addr == SubSeq(s, lt + 1, Len(s) - 1)
         IN  IF s[Len(s)] = ">" /\ AddressValid(addr)
             THEN Some([name |-> TrimEnd(SubSeq(s, 1, lt - 1)), email |-> addr])
             ELSE None

(***************************************************************************)
(* SmtpSender::new (email/src/senders/smtp.rs 19-59)                       *)
(*                                                                         *)
(* The network is an input: relay is the outcome of building the relay     *)
(* (starttls_relay / relay can fail, builder_dangerous cannot), test the   *)
(* outcome of test_connection(), a Result<bool, Error> whose Ok value the  *)
(* code drops: "?" leaves the function on Err only.                        *)
(***************************************************************************)
RelayOutcomes == {"Ok", "Err"}

TestOutcomes == {"OkTrue", "OkFalse", "Err"}

\* lines 29-51: the transport built for the mode
BuildTransport(address, port, tls_mode, relay) ==
    IF tls_mode # "None" /\ relay = "Err"
    THEN None
    ELSE Some([address |-> address, port |-> port,
               strategy |-> CASE tls_mode = "StartTls" -> "starttls_relay"
                              [] tls_mode = "ImplicitTls" -> "relay"
                              [] tls_mode = "None" -> "builder_dangerous"])

\* line 53: smtp.test_connection()?
TestConnectionPasses(test) == test # "Err"

SmtpSenderNew(address, username, password, port, tls_mode, default_from, relay, test) ==
    LET smtp == BuildTransport(address, port, tls_mode, relay)
        mailbox == MailboxFromStr(default_from)
    IN  IF ~smtp.some THEN [ok |-> FALSE, err |-> "Relay"]
        ELSE IF ~TestConnectionPasses(test) THEN [ok |-> FALSE, err |-> "Connection"]
        ELSE IF ~mailbox.some THEN [ok |-> FALSE, err |-> "Mailbox"]
        ELSE [ok |-> TRUE, smtp |-> smtp.v, default_from |-> mailbox.v,
              tested |-> test]   \* tested: what the connection test answered

(***************************************************************************)
(* Startup: the environments explored                                      *)
(***************************************************************************)
S_SMTP == <<"S","M","T","P">>
S_host == <<"m","x",":","2","5">>
S_user == <<"u">>
S_pass == <<"p">>
S_bogus == <<"b","o","g","u","s">>
S_email == <<"a","@","x">>
S_name == <<"A">>
S_old == <<"B"," ","<","b","@","x",">">>
S_bad == <<"b","a","d">>

MailerValues == {None, Some(<<>>), Some(S_smtp), Some(S_SMTP)}

RequiredValues == {None, Some(S_host)}

PortValues == {None, Some(<<"2","5">>), Some(<<"4","6","5">>),
               Some(<<"5","8","7">>), Some(<<"2","5","2","5">>)}

TlsModeValues ==
    {None, Some(<<>>), Some(S_starttls), Some(<<"S","T","A","R","T","_","T","L","S">>),
     Some(<<"I","m","p","l","i","c","i","t">>), Some(S_tls), Some(<<"S","S","L">>),
     Some(S_none), Some(<<"P","l","a","i","n">>), Some(S_bogus)}

EnvSpace ==
    [MAILER_TYPE : MailerValues,
     SMTP_ADDRESS : RequiredValues,
     SMTP_USERNAME : {None, Some(S_user)},
     SMTP_PASSWORD : {None, Some(S_pass)},
     SMTP_PORT : PortValues,
     SMTP_TLS_MODE : TlsModeValues,
     SMTP_DEFAULT_FROM_EMAIL : {None, Some(<<>>), Some(S_email)},
     SMTP_DEFAULT_FROM_NAME : {None, Some(<<>>), Some(S_name)},
     SMTP_DEFAULT_FROM : {None, Some(<<>>), Some(S_old), Some(S_bad)}]

Callers == {"c1", "c2"}

IdleCall == [state |-> "idle"]

Init ==
    /\ env \in EnvSpace
    /\ pc = "start"
    /\ vars = EmptyVars
    /\ closure = None
    /\ config = None
    /\ panicMsg = None
    /\ sender = None
    /\ calls = [c \in Callers |-> IdleCall]

(***************************************************************************)
(* Startup: the steps of EmailConfig::new, then SmtpSender::new            *)
(***************************************************************************)
\* lines 170-172 and 178-180
ReadMailerType ==
    /\ pc = "start"
    /\ LET mailer == VarDefault(vars, env, "MAILER_TYPE", <<>>)
       IN  /\ vars' = mailer.vs
           /\ IF MailerIsSmtp(mailer.val.v)
              THEN pc' = "credentials" /\ config' = config
              ELSE pc' = "done" /\ config' = Some([kind |-> "None"])
    /\ UNCHANGED <<env, closure, panicMsg, sender, calls>>

\* faulty variant: the closure is called without the error check before it
CallSmtpCredentialsNew_NoCheck ==
    /\ pc = "credentials"
    /\ LET r == SmtpCredentialsNew(vars, env)
       IN  vars' = r.vs /\ closure' = Some(r.closure)
    /\ pc' = "package"
    /\ UNCHANGED <<env, config, panicMsg, sender, calls>>

\* line 173
CallSmtpCredentialsNew ==
    /\ pc = "credentials"
    /\ LET r == SmtpCredentialsNew(vars, env)
       IN  vars' = r.vs /\ closure' = Some(r.closure)
    /\ pc' = "panic_if_errors"
    /\ UNCHANGED <<env, config, panicMsg, sender, calls>>

\* line 175
PanicIfErrors ==
    /\ pc = "panic_if_errors"
    /\ IF ErrorsPresent(vars.errors)
       THEN /\ pc' = "panicked"
            /\ panicMsg' = Some([section |-> "EmailConfig", errors |-> vars.errors])
       ELSE /\ pc' = "package"
            /\ panicMsg' = panicMsg
    /\ UNCHANGED <<env, vars, closure, config, sender, calls>>

\* line 177
CallCredentialsClosure ==
    /\ pc = "package"
    /\ config' = Some([kind |-> "Smtp", credentials |-> CredentialsClosure(closure.v)])
    /\ pc' = "done"
    /\ UNCHANGED <<env, vars, closure, panicMsg, sender, calls>>

\* the sender is built from the resolved credentials
BuildSender ==
    /\ pc = "done"
    /\ config.v.kind = "Smtp"
    /\ \E relay \in RelayOutcomes, test \in TestOutcomes :
          LET c == config.v.credentials
          IN  sender' = Some(SmtpSenderNew(c.address, c.username, c.password, c.port,
                                           c.tls_mode, c.default_from, relay, test))
    /\ pc' = "sender"
    /\ UNCHANGED <<env, vars, closure, config, panicMsg, calls>>

Next ==
    \/ ReadMailerType
    \/ CallSmtpCredentialsNew
    \/ PanicIfErrors
    \/ CallCredentialsClosure
    \/ BuildSender

Spec == Init /\ [][Next]_allvars

(***************************************************************************)
(* Properties of the configuration resolution, checked under Spec          *)
(***************************************************************************)
RequiredNames == {"SMTP_ADDRESS", "SMTP_USERNAME", "SMTP_PASSWORD"}

MissingRequired == {n \in RequiredNames : ~env[n].some}

SeqToSet(s) == {s[k] : k \in 1..Len(s)}

NonEmpty(o) == o.some /\ o.v # <<>>

SmtpSelected == env.MAILER_TYPE = Some(S_smtp)

Resolved == config.some /\ config.v.kind = "Smtp"

WarningCount(kind) ==
    Cardinality({k \in 1..Len(vars.warnings) : vars.warnings[k].kind = kind})

\* C4: with MAILER_TYPE = "smtp" and a required field missing, startup ends
\* in one aggregated error naming every missing field exactly once, no
\* EmailConfig and no SmtpCredentials is ever built and no sender follows;
\* and in every environment the closure that packages the credentials runs
\* only after the error check has passed on an empty error list.
C4_MissingRequiredAborts ==
    /\ (SmtpSelected /\ MissingRequired # {}) =>
          /\ config = None
          /\ sender = None
          /\ pc \in {"start", "credentials", "panic_if_errors", "panicked"}
          /\ pc = "panicked" =>
                /\ panicMsg.some
                /\ SeqToSet(panicMsg.v.errors) = MissingRequired
                /\ Len(panicMsg.v.errors) = Cardinality(MissingRequired)
    /\ (pc = "package" \/ Resolved) => (vars.errors = <<>> /\ panicMsg = None)

C4_Witness ==
    /\ pc = "panicked"
    /\ SmtpSelected
    /\ Cardinality(MissingRequired) = 3
    /\ Len(panicMsg.v.errors) = 3

\* C5: when MAILER_TYPE is unset or is not exactly "smtp", the resolution
\* returns EmailConfig::None, reads no variable but MAILER_TYPE, records no
\* error and no warning and never aborts, whatever the SMTP_* variables hold.
C5_DisabledReadsNothing ==
    ~SmtpSelected =>
        /\ vars.reads \subseteq {"MAILER_TYPE"}
        /\ vars.errors = <<>>
        /\ vars.warnings = <<>>
        /\ panicMsg = None
        /\ closure = None
        /\ sender = None
        /\ pc \in {"start", "done"}
        /\ pc = "done" => config = Some([kind |-> "None"])

C5_Witness ==
    /\ pc = "done"
    /\ env.MAILER_TYPE = Some(S_SMTP)
    /\ env.SMTP_ADDRESS = None
    /\ env.SMTP_TLS_MODE = Some(S_bogus)
    /\ env.SMTP_DEFAULT_FROM = Some(S_bad)
    /\ config = Some([kind |-> "None"])

\* C6 as stated: the deprecated value is the result only when neither new
\* variable is set; with a new variable set and no usable email the result
\* is the empty string.
C6_AsStated ==
    Resolved =>
        LET email == env.SMTP_DEFAULT_FROM_EMAIL
            name == env.SMTP_DEFAULT_FROM_NAME
            old == env.SMTP_DEFAULT_FROM
            got == config.v.credentials.default_from
        IN  /\ got = IF NonEmpty(email) /\ NonEmpty(name)
                     THEN name.v \o <<" ", "<">> \o email.v \o <<">">>
                     ELSE IF NonEmpty(email)
                     THEN S_Hoodik \o <<" ", "<">> \o email.v \o <<">">>
                     ELSE IF ~email.some /\ ~name.some /\ NonEmpty(old)
                     THEN old.v
                     ELSE <<>>
            /\ (NonEmpty(old) /\ got = old.v) => (~email.some /\ ~name.some)

\* C6 amended: "{name} <{email}>" when both new variables are non-empty;
\* "Hoodik <{email}>" when the email is non-empty and the name is absent or
\* empty; the SMTP_DEFAULT_FROM value verbatim when SMTP_DEFAULT_FROM_EMAIL
\* is absent or empty and SMTP_DEFAULT_FROM is non-empty, whatever
\* SMTP_DEFAULT_FROM_NAME holds; the empty string otherwise.  The deprecated
\* value is used only if SMTP_DEFAULT_FROM_EMAIL is absent or empty.
C6_DefaultFromPrecedence ==
    Resolved =>
        LET email == env.SMTP_DEFAULT_FROM_EMAIL
            name == env.SMTP_DEFAULT_FROM_NAME
            old == env.SMTP_DEFAULT_FROM
            got == config.v.credentials.default_from
        IN  /\ got = IF NonEmpty(email) /\ NonEmpty(name)
                     THEN name.v \o <<" ", "<">> \o email.v \o <<">">>
                     ELSE IF NonEmpty(email)
                     THEN S_Hoodik \o <<" ", "<">> \o email.v \o <<">">>
                     ELSE IF NonEmpty(old)
                     THEN old.v
                     ELSE <<>>
            /\ (NonEmpty(old) /\ got = old.v) => ~NonEmpty(email)

C6_Witness ==
    /\ Resolved
    /\ env.SMTP_DEFAULT_FROM_EMAIL = None
    /\ env.SMTP_DEFAULT_FROM_NAME = Some(S_name)
    /\ env.SMTP_DEFAULT_FROM = Some(S_old)
    /\ config.v.credentials.default_from = S_old

\* C7: whenever the resolved default_from is the (non-empty) value of the
\* deprecated SMTP_DEFAULT_FROM variable, the deprecation warning is in the
\* warning log.
C7_DeprecatedValueWarned ==
    (/\ Resolved
     /\ NonEmpty(env.SMTP_DEFAULT_FROM)
     /\ config.v.credentials.default_from = env.SMTP_DEFAULT_FROM.v)
    => WarningCount("DeprecatedDefaultFrom") >= 1

\* the aliases of SMTP_TLS_MODE and the port table, as the claim lists them
AliasOf(s) ==
    LET l == ToLowercase(s)
    IN  IF l \in {S_starttls, S_start_tls} THEN "StartTls"
        ELSE IF l \in {S_implicit, S_tls, S_ssl} THEN "ImplicitTls"
        ELSE IF l \in {S_none, S_plain} THEN "None"
        ELSE "NoAlias"

PortTable(p) ==
    IF p = 587 THEN "StartTls" ELSE IF p = 25 THEN "None" ELSE "ImplicitTls"

ExpectedPort ==
    CASE env.SMTP_PORT = None -> 465
      [] env.SMTP_PORT = Some(<<"2","5">>) -> 25
      [] env.SMTP_PORT = Some(<<"4","6","5">>) -> 465
      [] env.SMTP_PORT = Some(<<"5","8","7">>) -> 587
      [] env.SMTP_PORT = Some(<<"2","5","2","5">>) -> 2525

\* C8: a non-empty SMTP_TLS_MODE that is an alias (ignoring case) decides
\* the mode whatever the port, with no warning; a non-empty one that is no
\* alias gives from_port(port) and exactly one invalid-mode warning; an
\* absent or empty one gives from_port(port) and no warning.  from_port is
\* 587 -> StartTls, 25 -> None, 465 and any other port -> ImplicitTls.
C8_TlsModeResolution ==
    closure.some =>
        LET m == env.SMTP_TLS_MODE
            got == closure.v.tls_mode
            port == closure.v.port_value
        IN  /\ port = ExpectedPort
            /\ IF NonEmpty(m) /\ AliasOf(m.v) # "NoAlias"
               THEN got = AliasOf(m.v) /\ WarningCount("InvalidTlsMode") = 0
               ELSE IF NonEmpty(m)
               THEN /\ got = PortTable(port)
                    /\ WarningCount("InvalidTlsMode") = 1
                    /\ \E k \in 1..Len(vars.warnings) :
                          vars.warnings[k] = [kind |-> "InvalidTlsMode", value |-> m.v,
                                              detected |-> TlsModeLabel(PortTable(port)),
                                              port |-> port]
               ELSE got = PortTable(port) /\ WarningCount("InvalidTlsMode") = 0
            /\ Resolved => config.v.credentials.tls_mode = got

C8_Witness ==
    /\ Resolved
    /\ env.SMTP_TLS_MODE = Some(S_bogus)
    /\ env.SMTP_PORT = Some(<<"5","8","7">>)
    /\ config.v.credentials.tls_mode = "StartTls"
    /\ WarningCount("InvalidTlsMode") = 1

\* C9: a sender exists only if the connection test succeeded and
\* default_from parsed as a mailbox.
C9_SenderOnlyIfTestedAndParsed ==
    (sender.some /\ sender.v.ok) =>
        /\ sender.v.tested = "OkTrue"
        /\ config.v.credentials.default_from # <<>>
        /\ MailboxFromStr(config.v.credentials.default_from).some

\* the part of C9 about the deferred error: with no from-address variable
\* set the resolution succeeds with default_from = "" and no sender is built
C9_EmptyDefaultFromDeferred ==
    (/\ SmtpSelected
     /\ MissingRequired = {}
     /\ ~env.SMTP_DEFAULT_FROM_EMAIL.some
     /\ ~env.SMTP_DEFAULT_FROM_NAME.some
     /\ ~env.SMTP_DEFAULT_FROM.some) =>
        /\ vars.errors = <<>>
        /\ pc # "panicked"
        /\ Resolved => config.v.credentials.default_from = <<>>
        /\ sender.some => ~sender.v.ok

(***************************************************************************)
(* Template (crate::template), after the design document: the two flags   *)
(* send reads, the from-address it stamps, and message(), whose outcome    *)
(* (it fails when the template does not render) is an input.               *)
(***************************************************************************)
OtherMailbox == [name |-> <<"O">>, email |-> <<"o","@","x">>]

Templates == [from : {None, Some(OtherMailbox)}, skip : BOOLEAN]

\* Template::has_from
HasFrom(email) == email.from.some

\* Template::from_mailbox
FromMailbox(email, mailbox) == [email EXCEPT !.from = Some(mailbox)]

\* Template::skip_send
SkipSend(email) == email.skip

RenderOutcomes == {"Ok", "Err"}

\* Template::message: the wire message, carrying the template's from-address
Message(email, render) ==
    IF render = "Ok" /\ email.from.some THEN Some([from |-> email.from.v]) ELSE None

(***************************************************************************)
(* SmtpSender::send (email/src/senders/smtp.rs 64-101)                     *)
(*                                                                         *)
(* A call is [state, emails, i, sent, result] plus its history: stamped    *)
(* (each email after lines 68-70), rendered (the indices message() was     *)
(* called for) and handed (what was passed to self.smtp.send, with the     *)
(* transport's answer).  One step is one iteration of the for loop.        *)
(***************************************************************************)
MaxBatch == 3

MaxInFlight == 4

SendResponses == {"Positive", "Negative", "Error"}

RECURSIVE SeqsUpTo(_, _)
SeqsUpTo(S, n) ==
    IF n = 0 THEN {<<>>}
    ELSE LET shorter == SeqsUpTo(S, n - 1)
         IN  shorter \cup {Append(s, x) : s \in {q \in shorter : Len(q) = n - 1}, x \in S}

Batches == SeqsUpTo(Templates, MaxBatch)

\* line 65
NewCall(emails) ==
    [state |-> "running", emails |-> emails, i |-> 1, sent |-> 0, result |-> None,
     stamped |-> <<>>, rendered |-> <<>>, handed |-> <<>>]

\* faulty variant: the default from-address replaces an explicit one
Stamp_Overwrite(email, default_from) == FromMailbox(email, default_from)

\* lines 68-70
Stamp(email, default_from) ==
    IF ~HasFrom(email) THEN FromMailbox(email, default_from) ELSE email

\* faulty variant: a skipped message is passed over without being counted
OnSkip_NotCounted(call) == [call EXCEPT !.i = @ + 1]

\* lines 72-76: sent += 1; continue
OnSkip(call) == [call EXCEPT !.sent = @ + 1, !.i = @ + 1]

\* faulty variant: a transport error is logged and the loop goes on
OnResponse_ErrorSwallowed(call, message, resp) ==
    LET handed == Append(call.handed, [idx |-> call.i, message |-> message, resp |-> resp])
    IN  CASE resp = "Positive" ->
               [call EXCEPT !.handed = handed, !.sent = @ + 1, !.i = @ + 1]
          [] resp = "Negative" ->
               [call EXCEPT !.handed = handed, !.i = @ + 1]
          [] resp = "Error" ->
               [call EXCEPT !.handed = handed, !.i = @ + 1]

\* faulty variant: a negative response is counted like a positive one
OnResponse_NegativeCounted(call, message, resp) ==
    LET handed == Append(call.handed, [idx |-> call.i, message |-> message, resp |-> resp])
    IN  CASE resp = "Positive" ->
               [call EXCEPT !.handed = handed, !.sent = @ + 1, !.i = @ + 1]
          [] resp = "Negative" ->
               [call EXCEPT !.handed = handed, !.sent = @ + 1, !.i = @ + 1]
          [] resp = "Error" ->
               [call EXCEPT !.handed = handed, !.state = "returned",
                            !.result = Some([ok |-> FALSE, err |-> "Transport"])]

\* lines 80-97: self.smtp.send(&message) and the match on its result
OnResponse(call, message, resp) ==
    LET handed == Append(call.handed, [idx |-> call.i, message |-> message, resp |-> resp])
    IN  CASE resp = "Positive" ->
               [call EXCEPT !.handed = handed, !.sent = @ + 1, !.i = @ + 1]
          [] resp = "Negative" ->
               [call EXCEPT !.handed = handed, !.i = @ + 1]
          [] resp = "Error" ->
               [call EXCEPT !.handed = handed, !.state = "returned",
                            !.result = Some([ok |-> FALSE, err |-> "Transport"])]

\* lines 67-98: one iteration of the loop, on emails[i]
SendIteration(call, default_from, render, resp) ==
    LET email == Stamp(call.emails[call.i], default_from)
        c1 == [call EXCEPT !.stamped = Append(@, email)]
    IN  IF SkipSend(email)
        THEN OnSkip(c1)
        ELSE LET message == Message(email, render)
                 c2 == [c1 EXCEPT !.rendered = Append(@, call.i)]
             IN  IF ~message.some
                 THEN [c2 EXCEPT !.state = "returned",
                                 !.result = Some([ok |-> FALSE, err |-> "Render"])]
                 ELSE OnResponse(c2, message.v, resp)

\* line 100: Ok(sent)
ReturnOk(call) ==
    [call EXCEPT !.state = "returned", !.result = Some([ok |-> TRUE, count |-> call.sent])]

(***************************************************************************)
(* Concurrent send calls on the shared sender                              *)
(***************************************************************************)
SendEnv ==
    [MAILER_TYPE |-> Some(S_smtp), SMTP_ADDRESS |-> Some(S_host),
     SMTP_USERNAME |-> Some(S_user), SMTP_PASSWORD |-> Some(S_pass),
     SMTP_PORT |-> Some(<<"5","8","7">>), SMTP_TLS_MODE |-> None,
     SMTP_DEFAULT_FROM_EMAIL |-> Some(S_email), SMTP_DEFAULT_FROM_NAME |-> Some(S_name),
     SMTP_DEFAULT_FROM |-> None]

\* the state startup leaves behind in SendEnv with a reachable server
InitSend ==
    LET mailer == VarDefault(EmptyVars, SendEnv, "MAILER_TYPE", <<>>)
        r == SmtpCredentialsNew(mailer.vs, SendEnv)
        c == CredentialsClosure(r.closure)
    IN  /\ env = SendEnv
        /\ pc = "sender"
        /\ vars = r.vs
        /\ closure = Some(r.closure)
        /\ config = Some([kind |-> "Smtp", credentials |-> c])
        /\ panicMsg = None
        /\ sender = Some(SmtpSenderNew(c.address, c.username, c.password, c.port,
                                       c.tls_mode, c.default_from, "Ok", "OkTrue"))
        /\ calls = [x \in Callers |-> IdleCall]

RECURSIVE SumLen(_, _)
SumLen(cs, S) ==
    IF S = {} THEN 0
    ELSE LET x == CHOOSE y \in S : TRUE
         IN  (IF cs[x].state = "idle" THEN 0 ELSE Len(cs[x].emails)) + SumLen(cs, S \ {x})

\* a caller enters send with a batch (line 64)
CallSend(c) ==
    /\ sender.some /\ sender.v.ok
    /\ calls[c].state = "idle"
    /\ \E emails \in Batches :
          /\ Len(emails) + SumLen(calls, Callers) <= MaxInFlight
          /\ calls' = [calls EXCEPT ![c] = NewCall(emails)]
    /\ UNCHANGED <<env, pc, vars, closure, config, panicMsg, sender>>

\* the loop body runs for the next email
Iterate(c) ==
    /\ calls[c].state = "running"
    /\ calls[c].i <= Len(calls[c].emails)
    /\ \E render \in RenderOutcomes, resp \in SendResponses :
          calls' = [calls EXCEPT
                      ![c] = SendIteration(calls[c], sender.v.default_from, render, resp)]
    /\ UNCHANGED <<env, pc, vars, closure, config, panicMsg, sender>>

\* the loop is over
Return(c) ==
    /\ calls[c].state = "running"
    /\ calls[c].i > Len(calls[c].emails)
    /\ calls' = [calls EXCEPT ![c] = ReturnOk(calls[c])]
    /\ UNCHANGED <<env, pc, vars, closure, config, panicMsg, sender>>

\* the caller has taken the result
Complete(c) ==
    /\ calls[c].state = "returned"
    /\ calls' = [calls EXCEPT ![c] = IdleCall]
    /\ UNCHANGED <<env, pc, vars, closure, config, panicMsg, sender>>

NextSend ==
    \/ \E c \in Callers : CallSend(c)
    \/ \E c \in Callers : Iterate(c)
    \/ \E c \in Callers : Return(c)
    \/ \E c \in Callers : Complete(c)

SpecSend == InitSend /\ [][NextSend]_allvars

(***************************************************************************)
(* Properties of send, checked under SpecSend                              *)
(***************************************************************************)
Active == {c \in Callers : calls[c].state # "idle"}

\* the indices of the emails of a batch that are not marked skip-send
NonSkip(emails) == {k \in 1..Len(emails) : ~emails[k].skip}

\* how many non-skip emails precede index k, k included
NonSkipRank(emails, k) == Cardinality({j \in NonSkip(emails) : j <= k})

SkippedBefore(call) ==
    Cardinality({k \in 1..(call.i - 1) : call.emails[k].skip})

HandedWith(call, resp) ==
    Cardinality({k \in 1..Len(call.handed) : call.handed[k].resp = resp})

\* C1: in every call, at every moment, the messages handed to the transport
\* are, in input order, the first non-skip messages of the batch; a
\* transport error is the last message the call hands over, the call has
\* returned that error (not a count), and what was handed before it is
\* still in the record.
C1_PrefixAndErrorHalts ==
    \A c \in Active :
        LET call == calls[c]
            n == Len(call.handed)
        IN  /\ n <= Cardinality(NonSkip(call.emails))
            /\ \A k \in 1..n :
                  /\ call.handed[k].idx \in NonSkip(call.emails)
                  /\ NonSkipRank(call.emails, call.handed[k].idx) = k
                  /\ call.handed[k].resp = "Error" =>
                        /\ k = n
                        /\ call.state = "returned"
                        /\ call.result = Some([ok |-> FALSE, err |-> "Transport"])
                        /\ call.i = call.handed[k].idx

C1_Witness ==
    \E c \in Callers, d \in Callers :
        /\ c # d
        /\ calls[d].state = "running"
        /\ Len(calls[d].handed) = 1
        /\ calls[c].state = "returned"
        /\ Len(calls[c].emails) = 3
        /\ NonSkip(calls[c].emails) = {1, 2, 3}
        /\ Len(calls[c].handed) = 2
        /\ calls[c].handed[1].resp = "Positive"
        /\ calls[c].handed[2].resp = "Error"
        /\ ~calls[c].result.v.ok

NegativeStep(c) ==
    /\ calls[c].state = "running"
    /\ calls'[c].state # "idle"
    /\ Len(calls'[c].handed) = Len(calls[c].handed) + 1
    /\ calls'[c].handed[Len(calls'[c].handed)].resp = "Negative"

\* C2: a step of a call in which the transport answers with a negative
\* response leaves the success count as it was and leaves the call running
\* on the next message of the batch.
C2_NegativeNeitherCountsNorEnds ==
    [][\A c \in Callers :
          NegativeStep(c) =>
              /\ calls'[c].sent = calls[c].sent
              /\ calls'[c].state = "running"
              /\ calls'[c].i = calls[c].i + 1
              /\ calls'[c].emails = calls[c].emails]_allvars

C2_Witness ==
    \E c \in Callers :
        /\ calls[c].state = "returned"
        /\ Len(calls[c].emails) = 3
        /\ Len(calls[c].handed) = 3
        /\ calls[c].handed[1].resp = "Negative"
        /\ calls[c].handed[2].resp = "Positive"
        /\ calls[c].handed[3].resp = "Positive"
        /\ calls[c].result = Some([ok |-> TRUE, count |-> 2])

\* C3: a skip-send message is never rendered and never handed to the
\* transport, and each one passed adds exactly one to the success count
\* (the count is the skipped messages passed plus the positive responses);
\* a batch of skip-send messages only returns Ok(batch length) with no
\* rendering and no transport call.
C3_SkipCountsWithoutTransport ==
    \A c \in Active :
        LET call == calls[c]
            allSkip == NonSkip(call.emails) = {}
        IN  /\ \A k \in 1..Len(call.rendered) : ~call.emails[call.rendered[k]].skip
            /\ \A k \in 1..Len(call.handed) : ~call.emails[call.handed[k].idx].skip
            /\ call.sent = SkippedBefore(call) + HandedWith(call, "Positive")
            /\ allSkip => (call.rendered = <<>> /\ call.handed = <<>>)
            /\ (allSkip /\ call.state = "returned") =>
                  call.result = Some([ok |-> TRUE, count |-> Len(call.emails)])

C3_Witness ==
    \E c \in Callers :
        /\ calls[c].state = "returned"
        /\ Len(calls[c].emails) = 3
        /\ NonSkip(calls[c].emails) = {}
        /\ calls[c].result = Some([ok |-> TRUE, count |-> 3])
        /\ calls[c].handed = <<>>

\* C10: every email the loop has taken up, skipped ones included, has been
\* stamped: it keeps its own from-address when it has one and gets the
\* sender's default_from otherwise; every message handed to the transport
\* carries the from-address of its stamped email.
C10_FromAddressStamped ==
    \A c \in Active :
        LET call == calls[c]
            expected(k) == IF call.emails[k].from.some
                           THEN call.emails[k].from.v
                           ELSE sender.v.default_from
        IN  /\ Len(call.stamped) =
                  IF call.state = "returned" /\ ~call.result.v.ok
                  THEN call.i ELSE call.i - 1
            /\ \A k \in 1..Len(call.stamped) :
                  /\ call.stamped[k].from = Some(expected(k))
                  /\ call.stamped[k].skip = call.emails[k].skip
            /\ \A k \in 1..Len(call.handed) :
                  call.handed[k].message.from = expected(call.handed[k].idx)
            /\ \A k \in 1..Len(call.rendered) : call.rendered[k] <= Len(call.stamped)

C10_Witness ==
    \E c \in Callers :
        /\ calls[c].state # "idle"
        /\ Len(calls[c].handed) = 2
        /\ calls[c].handed[1].message.from = OtherMailbox
        /\ calls[c].handed[2].message.from = sender.v.default_from
        /\ sender.v.default_from = [name |-> S_name, email |-> S_email]
        /\ Len(calls[c].stamped) = 3
        /\ calls[c].stamped[3].skip

=============================================================================
